---- MODULE Spec2Model ----
(***************************************************************************)
(* Model of src/app.js: the API client (getAll, save with retry and        *)
(* backoff, update, delete), the AppState singleton, the online/offline    *)
(* listeners and the bootstrap routines loadInitialData and                *)
(* initializeDefaultData.                                                  *)
(*                                                                         *)
(* One foreground task runs one routine at a time; every await of a fetch  *)
(* or of the backoff timer is a suspension point, so each action below is  *)
(* the code that runs between two suspension points.                       *)
(***************************************************************************)
EXTENDS Integers, Sequences, FiniteSets, TLC

\* ---------------------------------------------------------------- bounds
MaxItems == 1        \* longest menu_items collection the server holds
MaxRetries == 2      \* largest `retries` a direct caller of API.save passes
MaxRuns == 2         \* successive initializeDefaultData calls that are followed

\* ------------------------------------------------------ program constants
DefaultRetries == 2  \* save(table, items, retries = 2)
BackoffUnit == 500   \* setTimeout(resolve, 500 * (i + 1))

\* ------------------------------------------------------------- JS values
\* A JavaScript value is tagged with its type, so that `undefined`, strings,
\* numbers and arrays can sit in the same field.  Strings are sequences of
\* characters.
Undefined == [t |-> "undefined"]
Str(s) == [t |-> "string", v |-> s]
Num(n) == [t |-> "number", v |-> n]
Arr(a) == [t |-> "array", v |-> a]

\* ToBoolean: undefined, "" and 0 are falsy, every array is truthy.
Truthy(x) ==
    CASE x.t = "undefined" -> FALSE
      [] x.t = "string" -> x.v # <<>>
      [] x.t = "number" -> x.v # 0
      [] x.t = "array" -> TRUE

IsArray(x) == x.t = "array"

\* item.category === 'Cuero Artesanal' : strict equality, no conversion.
StrictEq(x, s) == x.t = "string" /\ x.v = s

Uppers == <<"A","B","C","D","E","F","G","H","I","J","K","L","M",
            "N","O","P","Q","R","S","T","U","V","W","X","Y","Z">>
Lowers == <<"a","b","c","d","e","f","g","h","i","j","k","l","m",
            "n","o","p","q","r","s","t","u","v","w","x","y","z">>

LowerChar(c) ==
    IF \E k \in 1..Len(Uppers) : Uppers[k] = c
    THEN Lowers[CHOOSE k \in 1..Len(Uppers) : Uppers[k] = c]
    ELSE c

\* String.prototype.toLowerCase
ToLowerCase(s) == [k \in 1..Len(s) |-> LowerChar(s[k])]

\* String.prototype.includes
Includes(s, sub) ==
    \E k \in 0..(Len(s) - Len(sub)) : SubSeq(s, k + 1, k + Len(sub)) = sub

\* The string literals of the migration and of the seed records.
CueroArtesanal == <<"C","u","e","r","o"," ","A","r","t","e","s","a","n","a","l">>
Cuero == <<"C","u","e","r","o">>
Trapillo == <<"t","r","a","p","i","l","l","o">>
TejidosCrochet == <<"T","e","j","i","d","o","s"," ","C","r","o","c","h","e","t">>
Macrame == <<"M","a","c","r","a","m","e">>
BolsosEnZuncho == <<"B","o","l","s","o","s"," ","e","n"," ","Z","u","n","c","h","o">>
ZunchoPng == <<"z","u","n","c","h","o",".","p","n","g">>
SeedUrl == <<"h","t","t","p","s",":","/","/","l","h","3">>

\* -------------------------------------------------------------- AppState
Tables == {"menu_items", "orders", "transactions", "waiters", "cash_closures", "config"}

EmptyObject == "{}"

InitialAppState(online) ==
    [menuItems |-> <<>>, orders |-> <<>>, transactions |-> <<>>, waiters |-> <<>>,
     config |-> EmptyObject, cashClosures |-> <<>>, isOnline |-> online]

\* Utils.generateId(): the current time and a random suffix, an opaque
\* string; k tells apart the ids generated within one call.
GenerateId(k) == <<"generated", k>>

\* A menu item: the fields the code reads or writes (name, description,
\* price and available are carried along untouched and left out).
MenuItem(id, cost, category, image, img, images) ==
    [id |-> id, cost |-> cost, category |-> category,
     image |-> image, img |-> img, images |-> images]

SeedMenuItems ==
    << MenuItem(GenerateId(1), Num(45000), Str(Macrame), Str(SeedUrl), Undefined, Undefined),
       MenuItem(GenerateId(2), Num(35000), Str(BolsosEnZuncho), Str(ZunchoPng), Undefined, Undefined),
       MenuItem(GenerateId(3), Num(25000), Str(TejidosCrochet), Str(SeedUrl), Undefined, Undefined) >>

SeedWaiters ==
    << [id |-> GenerateId(1), name |-> "Juan Perez", active |-> TRUE],
       [id |-> GenerateId(2), name |-> "Maria Garcia", active |-> TRUE] >>

\* ------------------------------------------------------------- migration
\* The body of the forEach callback, one `if` per operator.  s is the pair
\* of the item being rewritten and the needsUpdate flag of the enclosing
\* function.
MigrateCostSilent(s) ==
    IF s.item.cost = Undefined
    THEN [item |-> [s.item EXCEPT !.cost = Num(0)], needsUpdate |-> s.needsUpdate]
    ELSE s

MigrateCost(s) ==
    IF s.item.cost = Undefined
    THEN [item |-> [s.item EXCEPT !.cost = Num(0)], needsUpdate |-> TRUE]
    ELSE s

MigrateImg(s) ==
    IF Truthy(s.item.img) /\ ~Truthy(s.item.images)
    THEN [item |-> [s.item EXCEPT !.images = Arr(<<s.item.img>>), !.img = Undefined],
          needsUpdate |-> TRUE]
    ELSE s

EnsureImagesMissingOnly(s) ==
    IF ~Truthy(s.item.images)
    THEN [item |-> [s.item EXCEPT !.images = Arr(<<>>)], needsUpdate |-> TRUE]
    ELSE s

EnsureImages(s) ==
    IF ~Truthy(s.item.images) \/ ~IsArray(s.item.images)
    THEN [item |-> [s.item EXCEPT !.images = Arr(<<>>)], needsUpdate |-> TRUE]
    ELSE s

RenameCuero(s) ==
    IF StrictEq(s.item.category, CueroArtesanal)
    THEN [item |-> [s.item EXCEPT !.category = Str(Cuero)], needsUpdate |-> TRUE]
    ELSE s

RenameTrapilloCaseSensitive(s) ==
    IF Truthy(s.item.category) /\ Includes(s.item.category.v, Trapillo)
    THEN [item |-> [s.item EXCEPT !.category = Str(TejidosCrochet)], needsUpdate |-> TRUE]
    ELSE s

RenameTrapillo(s) ==
    IF Truthy(s.item.category) /\ Includes(ToLowerCase(s.item.category.v), Trapillo)
    THEN [item |-> [s.item EXCEPT !.category = Str(TejidosCrochet)], needsUpdate |-> TRUE]
    ELSE s

MigrateItem(s) == RenameTrapillo(RenameCuero(EnsureImages(MigrateImg(MigrateCost(s)))))

\* AppState.menuItems.forEach(...): the items in order, needsUpdate carried
\* from one item to the next.  Result: the rewritten list and the flag.
RECURSIVE MigrateFrom(_, _, _)
MigrateFrom(items, k, needsUpdate) ==
    IF k > Len(items)
    THEN [items |-> items, needsUpdate |-> needsUpdate]
    ELSE LET r == MigrateItem([item |-> items[k], needsUpdate |-> needsUpdate])
         IN MigrateFrom([items EXCEPT ![k] = r.item], k + 1, r.needsUpdate)

MigrateAll(items) == MigrateFrom(items, 1, FALSE)

\* ------------------------------------------------------------ the server
\* What a request can meet: a 2xx answer with a JSON body, a non-2xx answer
\* (response.ok false), a transport failure (fetch rejects), or a 2xx answer
\* whose body does not parse (response.json() rejects).
Outcomes == {"ok", "http", "network", "json"}

\* The records of the collections this layer stores without reading them.
ServerWaiter == [id |-> <<"w1">>, name |-> "Ana", active |-> TRUE]
ConfigRecord == "config#1"

\* Menu records of the server in the whole-program specification: one in
\* the legacy shape, one in the current shape.
LegacyItem ==
    MenuItem(<<"m1">>, Undefined, Str(CueroArtesanal), Undefined, Str(ZunchoPng), Undefined)
CurrentItem ==
    MenuItem(<<"m2">>, Num(100), Str(Cuero), Undefined, Undefined, Arr(<<Str(ZunchoPng)>>))
ServerItems == {LegacyItem, CurrentItem}

SeqsUpTo(S, n) == UNION {[1..m -> S] : m \in 0..n}

\* The JSON bodies GET /{table} can answer with.
GetBodies(table) ==
    CASE table = "menu_items" -> SeqsUpTo(ServerItems, MaxItems)
      [] table = "waiters" -> {<<>>, <<ServerWaiter>>}
      [] table = "config" -> {<<>>, <<ConfigRecord>>}
      [] table = "orders" -> {<<"order#1">>}
      [] table = "transactions" -> {<<"transaction#1">>}
      [] table = "cash_closures" -> {<<"closure#1">>}

\* The JSON body of a successful POST, PUT or DELETE.
WriteBodies(table) == {<<"accepted", table>>}

\* ----------------------------------------------------------------- state
VARIABLES
    AppState,   \* the AppState singleton
    proc,       \* the routine the foreground task runs, or ran last
    out,        \* its outcome: running, returned or raised
    call,       \* the API call it awaits, or awaited last: op, table, retries
    i,          \* the loop variable of API.save
    phase,      \* "fetch": a request is in flight; "wait": the backoff timer
                \* runs; "idle": no API call is pending
    sent,       \* requests issued by this API call
    waits,      \* delays (ms) this API call has slept
    answers,    \* per answered request of this API call: "ok" or "fail"
    okBody,     \* the body of this API call's successful response
    apiOut,     \* what this API call signalled to its caller, in order
    calls,      \* the API calls this routine made: op and table, in order
    caught,     \* the errors API calls raised to this routine, in order
    before,     \* AppState when this routine was called
    done,       \* the API calls of this routine that have returned or thrown:
                \* table and outcome, in order
    runs        \* initializeDefaultData calls completed in succession

apiVars == <<call, i, phase, sent, waits, answers, okBody, apiOut>>
vars == <<AppState, proc, out, call, i, phase, sent, waits, answers, okBody,
          apiOut, calls, caught, before, done, runs>>

NoCall == [op |-> "none", table |-> "none", retries |-> 0]
NoBody == [t |-> "none"]
Body(b) == [t |-> "body", v |-> b]
NoOutcome == [kind |-> "none"]
Running == [kind |-> "running"]
Returned(v) == [kind |-> "returned", value |-> v]
Raised(e) == [kind |-> "raised", error |-> e]
Err(op, table, kind) == [op |-> op, table |-> table, kind |-> kind]

Idle == out.kind # "running"

Init ==
    /\ AppState \in {InitialAppState(online) : online \in BOOLEAN}
    /\ proc = "none"
    /\ out = NoOutcome
    /\ call = NoCall
    /\ i = 0
    /\ phase = "idle"
    /\ sent = 0
    /\ waits = <<>>
    /\ answers = <<>>
    /\ okBody = NoBody
    /\ apiOut = <<>>
    /\ calls = <<>>
    /\ caught = <<>>
    /\ before = AppState
    /\ done = <<>>
    /\ runs = 0

\* ------------------------------------------------------------ API client
\* for (let i = 0; i <= retries; i++)
LoopTest(k, retries) == k <= retries

\* if (i === retries) ... throw error
LastAttempt(k, retries) == k = retries

BackoffDelayFlat(k) == BackoffUnit

\* setTimeout(resolve, 500 * (i + 1))
BackoffDelay(k) == BackoffUnit * (k + 1)

\* An API function is entered and runs up to its first await.  getAll,
\* update and delete issue their one request; save enters its loop and, if
\* i <= retries holds for i = 0, issues the first POST, else falls out of
\* the loop and returns undefined.
BeginCall(op, table, retries) ==
    /\ call' = [op |-> op, table |-> table, retries |-> retries]
    /\ i' = 0
    /\ waits' = <<>>
    /\ answers' = <<>>
    /\ okBody' = NoBody
    /\ IF op = "save" /\ ~LoopTest(0, retries)
       THEN /\ phase' = "idle"
            /\ sent' = 0
            /\ apiOut' = <<Returned(Undefined)>>
       ELSE /\ phase' = "fetch"
            /\ sent' = 1
            /\ apiOut' = <<>>

\* The API function returns or throws: r goes to its caller.
FinishCall(r, body, ans, k) ==
    /\ phase' = "idle"
    /\ apiOut' = Append(apiOut, r)
    /\ okBody' = body
    /\ answers' = answers \o ans
    /\ i' = k
    /\ UNCHANGED <<call, sent, waits>>

\* A routine that makes no API call at all.
NoApiCall ==
    /\ call' = NoCall
    /\ i' = 0
    /\ phase' = "idle"
    /\ sent' = 0
    /\ waits' = <<>>
    /\ answers' = <<>>
    /\ okBody' = NoBody
    /\ apiOut' = <<>>

\* ------------------------------------------------------- loadInitialData
NextTable(t) ==
    CASE t = "menu_items" -> "orders"
      [] t = "orders" -> "transactions"
      [] t = "transactions" -> "waiters"
      [] t = "waiters" -> "cash_closures"
      [] t = "cash_closures" -> "config"

\* AppState.<collection> = await API.getAll(t); for config the first record
\* of the array, or {} when the array is empty.
Assign(st, t, v) ==
    CASE t = "menu_items" -> [st EXCEPT !.menuItems = v]
      [] t = "orders" -> [st EXCEPT !.orders = v]
      [] t = "transactions" -> [st EXCEPT !.transactions = v]
      [] t = "waiters" -> [st EXCEPT !.waiters = v]
      [] t = "cash_closures" -> [st EXCEPT !.cashClosures = v]
      [] t = "config" -> [st EXCEPT !.config = IF Len(v) > 0 THEN v[1] ELSE EmptyObject]

IsOptionalNever(t) == FALSE

\* The inner try/catch of loadInitialData wraps the cash_closures fetch only.
IsOptional(t) == t = "cash_closures"

FetchNextAhead(t) ==
    /\ BeginCall("getAll", NextTable(t), 0)
    /\ calls' = calls \o
          (IF NextTable(t) = "config"
           THEN <<[op |-> "getAll", table |-> "config"]>>
           ELSE <<[op |-> "getAll", table |-> NextTable(t)],
                  [op |-> "getAll", table |-> NextTable(NextTable(t))]>>)
    /\ out' = out

FetchNext(t) ==
    /\ BeginCall("getAll", NextTable(t), 0)
    /\ calls' = Append(calls, [op |-> "getAll", table |-> NextTable(t)])
    /\ out' = out

LoadResumeRollback(r, body, ans, k) ==
    LET t == call.table IN
    /\ UNCHANGED <<proc, before, runs>>
    /\ IF r.kind = "returned"
       THEN /\ AppState' = Assign(AppState, t, r.value)
            /\ caught' = caught
            /\ IF t = "config"
               THEN /\ FinishCall(r, body, ans, k)
                    /\ out' = Returned(Undefined)
                    /\ calls' = calls
               ELSE FetchNext(t)
       ELSE /\ caught' = Append(caught, r.error)
            /\ IF IsOptional(t)
               THEN /\ AppState' = [AppState EXCEPT !.cashClosures = <<>>]
                    /\ FetchNext(t)
               ELSE /\ AppState' = [before EXCEPT !.isOnline = AppState.isOnline]
                    /\ FinishCall(r, body, ans, k)
                    /\ out' = r
                    /\ calls' = calls

\* getAll(call.table) has returned or thrown r: loadInitialData goes on to
\* its next await, to its end, or to its catch block, which rethrows.
LoadResume(r, body, ans, k) ==
    LET t == call.table IN
    /\ UNCHANGED <<proc, before, runs>>
    /\ IF r.kind = "returned"
       THEN /\ AppState' = Assign(AppState, t, r.value)
            /\ caught' = caught
            /\ IF t = "config"
               THEN /\ FinishCall(r, body, ans, k)
                    /\ out' = Returned(Undefined)
                    /\ calls' = calls
               ELSE FetchNext(t)
       ELSE /\ caught' = Append(caught, r.error)
            /\ IF IsOptional(t)
               THEN /\ AppState' = [AppState EXCEPT !.cashClosures = <<>>]
                    /\ FetchNext(t)
               ELSE /\ AppState' = AppState
                    /\ FinishCall(r, body, ans, k)
                    /\ out' = r
                    /\ calls' = calls

\* -------------------------------------------------- initializeDefaultData
WaitersPartUnsaved(st, cs, noCall) ==
    /\ AppState' = IF st.waiters = <<>> THEN [st EXCEPT !.waiters = SeedWaiters] ELSE st
    /\ noCall
    /\ calls' = cs
    /\ out' = Returned(Undefined)
    /\ runs' = runs + 1

\* The second half of initializeDefaultData, entered with AppState equal to
\* st and cs the API calls made so far; noCall says what becomes of the API
\* variables when no waiters write is issued.
WaitersPart(st, cs, noCall) ==
    IF st.waiters = <<>>
    THEN /\ AppState' = [st EXCEPT !.waiters = SeedWaiters]
         /\ BeginCall("save", "waiters", DefaultRetries)
         /\ calls' = Append(cs, [op |-> "save", table |-> "waiters"])
         /\ out' = Running
         /\ runs' = runs
    ELSE /\ AppState' = st
         /\ noCall
         /\ calls' = cs
         /\ out' = Returned(Undefined)
         /\ runs' = runs + 1

\* The first half: seed an empty menu, else migrate it; save when seeded or
\* when needsUpdate is set.
MenuPart ==
    IF AppState.menuItems = <<>>
    THEN /\ AppState' = [AppState EXCEPT !.menuItems = SeedMenuItems]
         /\ BeginCall("save", "menu_items", DefaultRetries)
         /\ calls' = <<[op |-> "save", table |-> "menu_items"]>>
         /\ out' = Running
         /\ runs' = runs
    ELSE LET m == MigrateAll(AppState.menuItems) IN
         IF m.needsUpdate
         THEN /\ AppState' = [AppState EXCEPT !.menuItems = m.items]
              /\ BeginCall("save", "menu_items", DefaultRetries)
              /\ calls' = <<[op |-> "save", table |-> "menu_items"]>>
              /\ out' = Running
              /\ runs' = runs
         ELSE WaitersPart([AppState EXCEPT !.menuItems = m.items], <<>>, NoApiCall)

InitResumeRestoring(r, body, ans, k) ==
    /\ UNCHANGED <<proc, before>>
    /\ IF r.kind = "raised"
       THEN /\ FinishCall(r, body, ans, k)
            /\ out' = r
            /\ caught' = Append(caught, r.error)
            /\ runs' = 0
            /\ AppState' = [before EXCEPT !.isOnline = AppState.isOnline]
            /\ calls' = calls
       ELSE /\ caught' = caught
            /\ IF call.table = "menu_items"
               THEN WaitersPart(AppState, calls, FinishCall(r, body, ans, k))
               ELSE /\ FinishCall(r, body, ans, k)
                    /\ out' = Returned(Undefined)
                    /\ runs' = runs + 1
                    /\ UNCHANGED <<AppState, calls>>

\* save(call.table) has returned or thrown r.  Nothing catches in
\* initializeDefaultData: a throw ends it.
InitResume(r, body, ans, k) ==
    /\ UNCHANGED <<proc, before>>
    /\ IF r.kind = "raised"
       THEN /\ FinishCall(r, body, ans, k)
            /\ out' = r
            /\ caught' = Append(caught, r.error)
            /\ runs' = 0
            /\ UNCHANGED <<AppState, calls>>
       ELSE /\ caught' = caught
            /\ IF call.table = "menu_items"
               THEN WaitersPart(AppState, calls, FinishCall(r, body, ans, k))
               ELSE /\ FinishCall(r, body, ans, k)
                    /\ out' = Returned(Undefined)
                    /\ runs' = runs + 1
                    /\ UNCHANGED <<AppState, calls>>

\* A direct call of an API function, and loadCashClosures, which only
\* forwards getAll's result.
DirectResume(r, body, ans, k) ==
    /\ FinishCall(r, body, ans, k)
    /\ out' = r
    /\ UNCHANGED <<AppState, proc, calls, caught, before, runs>>

\* The API call has returned or thrown r; its caller runs on.
Resume(r, body, ans, k) ==
    /\ done' = Append(done, [table |-> call.table, r |-> r])
    /\ CASE proc = "loadInitialData" -> LoadResume(r, body, ans, k)
         [] proc = "initializeDefaultData" -> InitResume(r, body, ans, k)
         [] OTHER -> DirectResume(r, body, ans, k)

\* ---------------------------------------------------------------- actions
\* The collections the callers outside this file address directly.
DirectTables == {"orders", "transactions"}

\* A routine is called while no other one is running.
Enter(name, op, table, retries) ==
    /\ Idle
    /\ proc' = name
    /\ BeginCall(op, table, retries)
    /\ out' = IF phase' = "idle" THEN apiOut'[1] ELSE Running
    /\ calls' = <<[op |-> op, table |-> table]>>
    /\ caught' = <<>>
    /\ before' = AppState
    /\ done' = IF phase' = "idle" THEN <<[table |-> table, r |-> apiOut'[1]]>> ELSE <<>>
    /\ runs' = 0
    /\ UNCHANGED AppState

CallGetAll == \E t \in DirectTables : Enter("getAll", "getAll", t, 0)

\* retries as the caller passes it: any integer, negative ones included.
CallSave == \E t \in DirectTables, n \in -1..MaxRetries : Enter("save", "save", t, n)

\* The id and the item of the request do not reach this layer's control flow.
CallUpdate == \E t \in DirectTables : Enter("update", "update", t, 0)

CallDelete == \E t \in DirectTables : Enter("delete", "delete", t, 0)

CallLoadCashClosures == Enter("loadCashClosures", "getAll", "cash_closures", 0)

CallLoadInitialData == Enter("loadInitialData", "getAll", "menu_items", 0)

CallInitializeDefaultData ==
    /\ Idle
    /\ runs < MaxRuns
    /\ proc' = "initializeDefaultData"
    /\ before' = AppState
    /\ caught' = <<>>
    /\ done' = <<>>
    /\ MenuPart

SingleResponseRetrying(op, bodies) ==
    /\ phase = "fetch"
    /\ call.op = op
    /\ \E o \in Outcomes :
          IF o = "ok"
          THEN \E b \in bodies : Resume(Returned(b), Body(b), <<"ok">>, i)
          ELSE IF sent < 2
               THEN /\ sent' = sent + 1
                    /\ answers' = Append(answers, "fail")
                    /\ UNCHANGED <<AppState, proc, out, call, i, phase, waits, okBody,
                                   apiOut, calls, caught, before, done, runs>>
               ELSE Resume(Raised(Err(op, call.table, o)), NoBody, <<"fail">>, i)

\* The answer to the one request of getAll, update or delete: the parsed
\* body is returned, anything else is logged and rethrown.
SingleResponse(op, bodies) ==
    /\ phase = "fetch"
    /\ call.op = op
    /\ \E o \in Outcomes :
          IF o = "ok"
          THEN \E b \in bodies : Resume(Returned(b), Body(b), <<"ok">>, i)
          ELSE Resume(Raised(Err(op, call.table, o)), NoBody, <<"fail">>, i)

GetAllResponse ==
    /\ call.op = "getAll"
    /\ SingleResponse("getAll", GetBodies(call.table))

UpdateResponse ==
    /\ call.op = "update"
    /\ SingleResponse("update", WriteBodies(call.table))

DeleteResponse ==
    /\ call.op = "delete"
    /\ SingleResponse("delete", WriteBodies(call.table))

\* The answer to the POST of attempt i of save: the parsed body is
\* returned; a failure is rethrown when i === retries and is otherwise
\* followed by a timer of 500 * (i + 1) ms.
SaveResponse ==
    /\ phase = "fetch"
    /\ call.op = "save"
    /\ \E o \in Outcomes :
          IF o = "ok"
          THEN \E b \in WriteBodies(call.table) : Resume(Returned(b), Body(b), <<"ok">>, i)
          ELSE IF LastAttempt(i, call.retries)
               THEN Resume(Raised(Err("save", call.table, o)), NoBody, <<"fail">>, i)
               ELSE /\ phase' = "wait"
                    /\ waits' = Append(waits, BackoffDelay(i))
                    /\ answers' = Append(answers, "fail")
                    /\ UNCHANGED <<AppState, proc, out, call, i, sent, okBody, apiOut,
                                   calls, caught, before, done, runs>>

\* The backoff timer fires: i++, then the loop test; the next POST, or the
\* end of the loop and of the function.
BackoffElapsed ==
    /\ phase = "wait"
    /\ IF LoopTest(i + 1, call.retries)
       THEN /\ i' = i + 1
            /\ phase' = "fetch"
            /\ sent' = sent + 1
            /\ UNCHANGED <<AppState, proc, out, call, waits, answers, okBody, apiOut,
                           calls, caught, before, done, runs>>
       ELSE Resume(Returned(Undefined), NoBody, <<>>, i + 1)

OfflineEventAborting ==
    /\ AppState' = [AppState EXCEPT !.isOnline = FALSE]
    /\ phase' = "idle"
    /\ UNCHANGED <<proc, out, call, i, sent, waits, answers, okBody, apiOut,
                   calls, caught, before, done, runs>>

\* window 'online' / 'offline' listeners.
OnlineEvent ==
    /\ AppState' = [AppState EXCEPT !.isOnline = TRUE]
    /\ UNCHANGED <<proc, out, call, i, phase, sent, waits, answers, okBody, apiOut,
                   calls, caught, before, done, runs>>

OfflineEvent ==
    /\ AppState' = [AppState EXCEPT !.isOnline = FALSE]
    /\ UNCHANGED <<proc, out, call, i, phase, sent, waits, answers, okBody, apiOut,
                   calls, caught, before, done, runs>>

Next ==
    \/ CallGetAll
    \/ CallSave
    \/ CallUpdate
    \/ CallDelete
    \/ CallLoadCashClosures
    \/ CallLoadInitialData
    \/ CallInitializeDefaultData
    \/ GetAllResponse
    \/ UpdateResponse
    \/ DeleteResponse
    \/ SaveResponse
    \/ BackoffElapsed
    \/ OnlineEvent
    \/ OfflineEvent

Spec == Init /\ [][Next]_vars

\* ------------------------------------------- the migration on any record
\* The second specification starts where a loadInitialData has just
\* completed against a server whose menu records take every shape the
\* migration tells apart, and follows initializeDefaultData from there.
CueroArtesanalLower == ToLowerCase(CueroArtesanal)
HiloTrapillo == <<"H","i","l","o"," ","T","r","a","p","i","l","l","o">>
TrapilloUpper == <<"T","R","A","P","I","L","L","O">>
FotoJpg == <<"f","o","t","o",".","j","p","g">>

CostValues == {Undefined, Num(0), Num(100)}
ImgValues == {Undefined, Str(<<>>), Str(ZunchoPng)}
ImagesValues == {Undefined, Str(FotoJpg), Arr(<<Str(FotoJpg)>>)}
CategoryValues ==
    {Undefined, Str(CueroArtesanal), Str(CueroArtesanalLower), Str(HiloTrapillo),
     Str(TrapilloUpper), Str(Macrame)}

ItemValues ==
    {MenuItem(<<"m1">>, c, cat, Undefined, img, imgs) :
        c \in CostValues, cat \in CategoryValues, img \in ImgValues, imgs \in ImagesValues}

LoadCalls ==
    [k \in 1..6 |->
        [op |-> "getAll",
         table |-> <<"menu_items", "orders", "transactions", "waiters",
                     "cash_closures", "config">>[k]]]

InitMigrate ==
    /\ \E m \in SeqsUpTo(ItemValues, MaxItems), w \in GetBodies("waiters") :
          /\ AppState = [menuItems |-> m, orders |-> <<"order#1">>,
                         transactions |-> <<"transaction#1">>, waiters |-> w,
                         config |-> ConfigRecord, cashClosures |-> <<"closure#1">>,
                         isOnline |-> TRUE]
          /\ done = [k \in 1..6 |->
                       [table |-> LoadCalls[k].table,
                        r |-> Returned(<<m, <<"order#1">>, <<"transaction#1">>, w,
                                         <<"closure#1">>, <<ConfigRecord>>>>[k])]]
    /\ proc = "loadInitialData"
    /\ out = Returned(Undefined)
    /\ call = [op |-> "getAll", table |-> "config", retries |-> 0]
    /\ i = 0
    /\ phase = "idle"
    /\ sent = 1
    /\ waits = <<>>
    /\ answers = <<"ok">>
    /\ okBody = Body(<<ConfigRecord>>)
    /\ apiOut = <<Returned(<<ConfigRecord>>)>>
    /\ calls = LoadCalls
    /\ caught = <<>>
    /\ before = InitialAppState(TRUE)
    /\ runs = 0

NextMigrate ==
    \/ CallInitializeDefaultData
    \/ SaveResponse
    \/ BackoffElapsed

SpecMigrate == InitMigrate /\ [][NextMigrate]_vars

\* ================================================================ claims
SaveCall == call.op = "save"
CallEnded == phase = "idle" /\ apiOut # <<>>
InitCall == proc = "initializeDefaultData"
RoutineEnded == out.kind \in {"returned", "raised"}
Made(op, table) == \E k \in 1..Len(calls) : calls[k] = [op |-> op, table |-> table]

\* C1: a save with retries >= 0 issues one POST per attempt, stops at the
\* first successful attempt, makes at most retries + 1 attempts, raises only
\* after attempt retries + 1 has failed, and sleeps 500 * k ms between the
\* failed attempt k and attempt k + 1.
SaveAttemptsAndBackoff ==
    (SaveCall /\ call.retries >= 0) =>
        /\ sent <= call.retries + 1
        /\ sent = Len(answers) + (IF phase = "fetch" THEN 1 ELSE 0)
        /\ \A k \in 1..(sent - 1) : answers[k] = "fail"
        /\ Len(waits) = (IF phase = "wait" THEN sent ELSE sent - 1)
        /\ \A k \in 1..Len(waits) : waits[k] = 500 * k
        /\ phase = "wait" => answers[sent] = "fail"
        /\ phase = "idle" =>
              /\ Len(apiOut) = 1
              /\ apiOut[1].kind = "returned" => answers[sent] = "ok"
              /\ apiOut[1].kind = "raised" =>
                    /\ sent = call.retries + 1
                    /\ answers[sent] = "fail"
              /\ answers[sent] = "ok" => apiOut[1].kind = "returned"

\* With retries = 2 and every attempt failing: 3 requests, waits of 500 and
\* 1000, then the error.
SaveExhaustedWitness ==
    /\ SaveCall
    /\ call.retries = 2
    /\ CallEnded
    /\ apiOut[1].kind = "raised"
    /\ sent = 3
    /\ waits = <<500, 1000>>

\* C4: a getAll, update or delete whose request fails has issued exactly
\* one request, retries nothing and raises its error exactly once.
SingleShotOnFailure ==
    (call.op \in {"getAll", "update", "delete"}) =>
        /\ sent <= 1
        /\ waits = <<>>
        /\ phase # "wait"
        /\ (answers # <<>> /\ answers[1] = "fail") =>
              /\ sent = 1
              /\ phase = "idle"
              /\ Len(apiOut) = 1
              /\ apiOut[1].kind = "raised"
              /\ apiOut[1].error.op = call.op
              /\ apiOut[1].error.table = call.table

UpdateFailedWitness ==
    /\ call.op = "update"
    /\ CallEnded
    /\ apiOut = <<Raised(Err("update", "orders", "http"))>>
    /\ sent = 1

\* C5: a save, whatever retries is, ends by returning the body of a
\* successful response or by raising an error; it never returns without a
\* successful request.
SaveReturnsBodyOrRaises ==
    (SaveCall /\ phase = "idle") =>
        /\ Len(apiOut) = 1
        /\ apiOut[1].kind = "returned" =>
              /\ okBody.t = "body"
              /\ sent >= 1
              /\ apiOut[1].value = okBody.v
        /\ apiOut[1].kind = "raised" => answers[sent] = "fail"

\* C3: in loadInitialData a failed cash_closures fetch is followed by the
\* config fetch with cashClosures empty and is not the error the call
\* raises; a failure of any other fetch is raised to the caller as it is,
\* and no further fetch is issued.
LoadCall == proc = "loadInitialData"

LoadFailurePolicy ==
    LoadCall =>
        /\ \A k \in 1..Len(caught) :
              IF caught[k].table = "cash_closures"
              THEN /\ Made("getAll", "config")
                   /\ AppState.cashClosures = <<>>
                   /\ out.kind = "raised" => out.error # caught[k]
              ELSE /\ k = Len(caught)
                   /\ out = Raised(caught[k])
                   /\ phase = "idle"
                   /\ calls[Len(calls)].table = caught[k].table
        /\ out.kind = "raised" =>
              /\ caught # <<>>
              /\ out.error = caught[Len(caught)]
              /\ out.error.table \in Tables \ {"cash_closures"}

CashClosuresDownWitness ==
    /\ LoadCall
    /\ out.kind = "returned"
    /\ caught = <<Err("getAll", "cash_closures", "network")>>
    /\ AppState.cashClosures = <<>>
    /\ AppState.config = ConfigRecord

\* C2: a call of initializeDefaultData that directly follows a completed
\* call of it issues no save at all, whatever menuItems and waiters were at
\* the start.
SecondRun ==
    /\ InitCall
    /\ \/ out.kind = "running" /\ runs >= 1
       \/ out.kind = "returned" /\ runs >= 2

SecondRunWritesNothing == SecondRun => calls = <<>>

\* C6: with a non-empty menu, a save of menu_items is issued exactly when
\* the migration pass changed some field of some record.
MenuSaveIffChanged ==
    (InitCall /\ before.menuItems # <<>>) =>
        (Made("save", "menu_items") <=> AppState.menuItems # before.menuItems)

MigratedAndSavedWitness ==
    /\ InitCall
    /\ before.menuItems # <<>>
    /\ AppState.menuItems # before.menuItems
    /\ Made("save", "menu_items")
    /\ out.kind = "returned"

\* C7, as the claim states it: called with no waiters, the call seeds and
\* saves the two default waiters whatever the menu_items part did; called
\* with waiters, it writes none and leaves them alone.
DefaultWaiters(w) ==
    /\ Len(w) = 2
    /\ \A k \in 1..2 : w[k].active
    /\ w[1].name = "Juan Perez"
    /\ w[2].name = "Maria Garcia"

WaitersKept ==
    /\ ~Made("save", "waiters")
    /\ AppState.waiters = before.waiters

WaitersSeededAlways ==
    (InitCall /\ RoutineEnded) =>
        IF before.waiters = <<>>
        THEN DefaultWaiters(AppState.waiters) /\ Made("save", "waiters")
        ELSE WaitersKept

\* C7, amended: the same, unless the menu_items save has failed after all
\* its retries; the call then raises before the waiters part, the waiters
\* stay empty and no waiters write is issued.
MenuSaveFailed == out.kind = "raised" /\ out.error.table = "menu_items"

WaitersSeededUnlessMenuSaveFails ==
    (InitCall /\ RoutineEnded) =>
        IF before.waiters = <<>> /\ ~MenuSaveFailed
        THEN DefaultWaiters(AppState.waiters) /\ Made("save", "waiters")
        ELSE WaitersKept

WaitersSeededWitness ==
    /\ InitCall
    /\ out.kind = "returned"
    /\ before.waiters = <<>>
    /\ before.menuItems # <<>>
    /\ calls = <<[op |-> "save", table |-> "menu_items"],
                 [op |-> "save", table |-> "waiters"]>>
    /\ DefaultWaiters(AppState.waiters)

\* C8: a record that came with an img field and no images field leaves the
\* migration pass with images holding exactly that value and with no img
\* field, for every value img can hold.
LegacyImageMoved ==
    (InitCall /\ before.menuItems # <<>>) =>
        \A k \in 1..Len(before.menuItems) :
            LET b == before.menuItems[k]
                a == AppState.menuItems[k]
            IN (b.img # Undefined /\ b.images = Undefined) =>
                   (a.images = Arr(<<b.img>>) /\ a.img = Undefined)

\* C9: the migration pass turns the category "Cuero Artesanal" into
\* "Cuero", every category containing "trapillo" in any letter case into
\* "Tejidos Crochet", and leaves every other category as it was.
SameLetter(a, b) ==
    a = b \/ \E n \in 1..Len(Uppers) : {a, b} = {Uppers[n], Lowers[n]}

HasTrapilloAnyCase(c) ==
    /\ c.t = "string"
    /\ \E off \in 0..(Len(c.v) - Len(Trapillo)) :
          \A j \in 1..Len(Trapillo) : SameLetter(c.v[off + j], Trapillo[j])

CategoriesRenamed ==
    (InitCall /\ before.menuItems # <<>>) =>
        \A k \in 1..Len(before.menuItems) :
            LET b == before.menuItems[k].category
                a == AppState.menuItems[k].category
            IN IF b = Str(CueroArtesanal) THEN a = Str(Cuero)
               ELSE IF HasTrapilloAnyCase(b) THEN a = Str(TejidosCrochet)
               ELSE a = b

UpperCaseTrapilloWitness ==
    /\ InitCall
    /\ Len(before.menuItems) = 1
    /\ before.menuItems[1].category = Str(TrapilloUpper)
    /\ AppState.menuItems[1].category = Str(TejidosCrochet)
    /\ out.kind = "returned"

\* C10: a step that changes isOnline changes nothing else, neither a
\* collection of AppState nor the pending request, the loop variable, the
\* backoff timer or anything a routine has done; and the steps of the API
\* calls are enabled after the event exactly as they were before it.
rest ==
    <<proc, out, call, i, phase, sent, waits, answers, okBody, apiOut, calls,
      caught, before, done, runs>>

ConnectivityOnlySetsFlag ==
    [][ AppState'.isOnline # AppState.isOnline =>
          /\ AppState' = [AppState EXCEPT !.isOnline = AppState'.isOnline]
          /\ UNCHANGED rest
          /\ (ENABLED GetAllResponse)' = (ENABLED GetAllResponse)
          /\ (ENABLED UpdateResponse)' = (ENABLED UpdateResponse)
          /\ (ENABLED DeleteResponse)' = (ENABLED DeleteResponse)
          /\ (ENABLED SaveResponse)' = (ENABLED SaveResponse)
          /\ (ENABLED BackoffElapsed)' = (ENABLED BackoffElapsed) ]_vars

\* The connection went away during a save, and the retry was sent all the
\* same.
RetriedWhileOfflineWitness ==
    /\ SaveCall
    /\ before.isOnline
    /\ ~AppState.isOnline
    /\ phase = "fetch"
    /\ sent = 2
    /\ waits = <<500>>

\* C11: loadInitialData requests menu_items, orders, transactions, waiters,
\* cash_closures and config in this order, each one only after the one
\* before it has returned or thrown; it never has two requests in flight.
LoadOrder ==
    <<"menu_items", "orders", "transactions", "waiters", "cash_closures", "config">>

InFlight == IF phase = "fetch" THEN 1 ELSE 0

SequentialFetches ==
    LoadCall =>
        /\ Len(calls) <= Len(LoadOrder)
        /\ \A k \in 1..Len(calls) : calls[k] = [op |-> "getAll", table |-> LoadOrder[k]]
        /\ Len(done) <= Len(calls)
        /\ \A k \in 1..Len(done) : done[k].table = LoadOrder[k]
        /\ Len(calls) - Len(done) = InFlight
        /\ sent - Len(answers) = InFlight
        /\ sent = 1

SixFetchesInOrderWitness ==
    /\ LoadCall
    /\ out.kind = "returned"
    /\ Len(calls) = 6
    /\ Len(done) = 6
    /\ done[5].r.kind = "returned"

\* C12: after the migration pass over a non-empty menu every record has a
\* defined cost, a list as images, and a category that is neither "Cuero
\* Artesanal" nor contains "trapillo"; a pass over such records, the
\* migrated ones included, changes nothing and sets no needsUpdate.
MigratedShape(a) ==
    /\ a.cost # Undefined
    /\ a.images.t = "array"
    /\ a.category # Str(CueroArtesanal)
    /\ ~HasTrapilloAnyCase(a.category)

AllMigrated(items) == \A k \in 1..Len(items) : MigratedShape(items[k])

MigrationSettles ==
    (InitCall /\ before.menuItems # <<>>) =>
        /\ Len(AppState.menuItems) = Len(before.menuItems)
        /\ AllMigrated(AppState.menuItems)
        /\ MigrateAll(AppState.menuItems) =
              [items |-> AppState.menuItems, needsUpdate |-> FALSE]
        /\ AllMigrated(before.menuItems) =>
              /\ AppState.menuItems = before.menuItems
              /\ ~Made("save", "menu_items")

LegacyRecordMigratedWitness ==
    /\ InitCall
    /\ out.kind = "returned"
    /\ Len(before.menuItems) = 1
    /\ before.menuItems[1].cost = Undefined
    /\ before.menuItems[1].images = Str(FotoJpg)
    /\ before.menuItems[1].category = Str(HiloTrapillo)
    /\ AppState.menuItems[1].cost = Num(0)
    /\ AppState.menuItems[1].images = Arr(<<>>)
    /\ AppState.menuItems[1].category = Str(TejidosCrochet)

\* C13: when a required fetch of loadInitialData fails, the call raises that
\* error; every collection fetched before it holds what its fetch returned
\* (cash closures the empty list when their fetch failed), and the failed
\* collection, the ones after it and config hold what they held at the call.
Field(st, t) ==
    CASE t = "menu_items" -> st.menuItems
      [] t = "orders" -> st.orders
      [] t = "transactions" -> st.transactions
      [] t = "waiters" -> st.waiters
      [] t = "cash_closures" -> st.cashClosures
      [] t = "config" -> st.config

LoadFailed == LoadCall /\ out.kind = "raised"

PartialLoadOnFailure ==
    LoadFailed =>
        LET n == Len(done) IN
        /\ n >= 1
        /\ done[n] = [table |-> LoadOrder[n], r |-> out]
        /\ out.error.table = LoadOrder[n]
        /\ LoadOrder[n] # "cash_closures"
        /\ \A j \in 1..(n - 1) :
              Field(AppState, LoadOrder[j]) =
                  IF done[j].r.kind = "returned" THEN done[j].r.value ELSE <<>>
        /\ \A j \in n..Len(LoadOrder) :
              Field(AppState, LoadOrder[j]) = Field(before, LoadOrder[j])

HalfLoadedWitness ==
    /\ LoadFailed
    /\ out.error.table = "transactions"
    /\ AppState.menuItems # before.menuItems
    /\ AppState.menuItems # <<>>
    /\ before.config = ConfigRecord
    /\ AppState.config = ConfigRecord

\* C14: when the save of menu_items in initializeDefaultData fails on its
\* last attempt, the call raises the save error after retries + 1 requests,
\* no write of waiters is issued and waiters are untouched, and
\* AppState.menuItems holds the seeded or migrated records, which differ from
\* the ones it held at the call.
UnsavedMenuKept ==
    (InitCall /\ MenuSaveFailed) =>
        /\ out.error.op = "save"
        /\ sent = DefaultRetries + 1
        /\ okBody = NoBody
        /\ calls = <<[op |-> "save", table |-> "menu_items"]>>
        /\ ~Made("save", "waiters")
        /\ AppState.waiters = before.waiters
        /\ AppState.menuItems # before.menuItems
        /\ AppState.menuItems =
              IF before.menuItems = <<>>
              THEN SeedMenuItems
              ELSE MigrateAll(before.menuItems).items

SeedNeverPersistedWitness ==
    /\ InitCall
    /\ MenuSaveFailed
    /\ before.menuItems = <<>>
    /\ Len(AppState.menuItems) = 3
    /\ before.waiters = <<>>
    /\ AppState.waiters = <<>>

====
